---- MODULE Spec2Model ----
(***************************************************************************)
(* A model of the pipe library: the orchestrator (Pipe.Pipe, Pipe.open),   *)
(* the Fan combinator, the test stages of pipe_test.go (source, sink,      *)
(* noopValve) and the stream adapters of package io.                       *)
(*                                                                         *)
(* Every goroutine is a task with a control point pc[t].  A hand-off       *)
(* channel is unbuffered: a sender waits at "send" until a receiver takes  *)
(* its Region, which completes the send.  The terminal-signal channel      *)
(* `done` is a queue of capacity DoneCap.                                  *)
(***************************************************************************)
EXTENDS Integers, Sequences, FiniteSets, TLC

\* ---------------------------------------------------------------- bounds
MaxRegions == 2      \* most Regions a test source holds
MaxValves  == 2      \* most valves given to New
MaxSources == 2      \* most sources given to Fan
MaxWriters == 2      \* most targets given to Pool
MaxSize    == MaxRegions + 1   \* most bytes in the source file of a stream run

\* ------------------------------------------------------ program constants
DoneCap == 1         \* done := make(chan error, 1)

\* ------------------------------------------------------------- constants
NoRegion == [off |-> -1, data |-> <<>>]
Nil      == "nil"                  \* the nil error
NoErr    == "none"                 \* no value (Pipe has not returned, ctx.Err() == nil)
PIPE     == <<"pipe", 0>>
Src(i)   == <<"source", i>>        \* source i: the pipe's source, or the i-th source of Fan
FAN      == <<"fan", 0>>           \* fan.Write
Pass(i)  == <<"pass", i>>          \* the i-th forwarding goroutine of fan.Write
SINK     == <<"sink", 0>>
Valve(j) == <<"valve", j>>
Worker(n) == <<"worker", n>>       \* the write goroutine pool.Read starts for its n-th Region
Sources  == {Src(i) : i \in 1..MaxSources}
Passes   == {Pass(i) : i \in 1..MaxSources}
Valves   == {Valve(j) : j \in 1..MaxValves}
Workers  == {Worker(n) : n \in 1..MaxSize}
Tasks    == Sources \cup Passes \cup Valves \cup Workers \cup {FAN, SINK}

VARIABLES
  cfg,         \* the run's configuration: the arguments of New and the test's stage behaviour
  pc,          \* control point of every stage goroutine
  inCh,        \* the channel a stage reads from (0: none)
  outCh,       \* the channel a stage writes to (0: none)
  held,        \* the Region a stage holds (r / curr / data in the code)
  closes,      \* closes[c]: how many times close(c) ran on hand-off channel c (made in order)
  pipePc,      \* control point of Pipe.Pipe
  connectors,  \* Pipe.open's connectors, consumer side first
  back,        \* Pipe.open's loop variable
  done,        \* the terminal-signal channel's buffer
  ctxErr,      \* ctx.Err() of the context derived by Pipe
  callerErr,   \* Err() of the caller's context
  result,      \* what Pipe returned
  srcIdx,      \* test source i: number of Regions sent
  observed,    \* test sink: the Regions f accepted (`read` in the tests)
  valveSeen,   \* noopValve: the Regions f was called with (`firsts`, `seconds`)
  fanWait,     \* fan.Write: the counter of `waiter`
  sent,        \* history of done: <<stage, value>> for every completed `errs <- value`
  mem,         \* the heap: the byte arrays made by pooledBuffer.Get that are still referenced
  bufPool,     \* pooledBuffer.pool: the queued slices
  getCalls,    \* number of calls of pooledBuffer.Get made so far
  putCalls,    \* number of calls of pooledBuffer.Put made so far
  rd,          \* io source i: b.off and the state of its reader (position, LimitedReader.N)
  dest,        \* the destination file: offset -> byte
  writers,     \* pool.writers: the idle targets
  poolWait,    \* pool.Read: the counter of `waiter`
  written,     \* `written` of a write loop
  target,      \* `writer` of a pool write goroutine
  writeCalls   \* number of WriteAt calls made on the destination

pipeVars  == <<pipePc, connectors, back, result>>
ctxVars   == <<ctxErr, callerErr>>
stageVars == <<pc, inCh, outCh, held>>
testVars  == <<srcIdx, observed, valveSeen>>
ioVars    == <<mem, bufPool, getCalls, putCalls, rd, dest, writers, poolWait, written,
               target, writeCalls>>
vars == <<cfg, pc, inCh, outCh, held, closes, pipePc, connectors,
          back, done, ctxErr, callerErr, result, srcIdx, observed, valveSeen,
          fanWait, sent, ioVars>>

\* ------------------------------------------------------------ test data
\* pipe_test.go: regions (offsets 0, 10, 90 there; one byte of data stands for ten)
\* The r-th Region of source i.
TestRegion(i, r) == [off |-> 100 * (i - 1) + 10 * (r - 1), data |-> <<10 * i + r>>]
TestRegions(i) == [r \in 1..cfg.ns[i] |-> TestRegion(i, r)]


\* ------------------------------------------------------- configurations
\* cfg.shape is "chain" (source, valves, sink), "fan" (Fan over sources, sink) or "io" (the
\* stream adapters, below); cfg.ns[i] is the number of Regions of source i, cfg.k the number
\* of valves, cfg.cancel what the caller's context does.  At most one stage fails: cfg.fail
\* is <<"none", 0, 0>>, <<"source", i, 0>> (source i has err set), <<"valve", j, m>> (valve
\* j's f fails on its m-th call) or <<"sink", 0, m>> (the sink's f fails on the m-th Region).
Failures(ns, k, n) ==
  {<<"none", 0, 0>>}
    \cup {<<"source", i, 0>> : i \in 1..Len(ns)}
    \cup {<<"valve", j, m>> : j \in 1..k, m \in 1..n}
    \cup {<<"sink", 0, m>> : m \in 1..n}

CancelKinds == {"never", "Canceled", "DeadlineExceeded"}

RECURSIVE Sum(_)
Sum(ns) == IF ns = <<>> THEN 0 ELSE Head(ns) + Sum(Tail(ns))

\* Fan over up to MaxSources sources (none included) of up to MaxRegions Regions each,
\* MaxRegions + 1 in all; at most one source has err set, the sink's f never fails and the
\* caller's context is context.Background().
FanSources ==
  {ns \in UNION {[1..len -> 0..MaxRegions] : len \in 0..MaxSources} :
     Sum(ns) <= MaxRegions + 1}

FanConfigs ==
  UNION {{[shape |-> "fan", ns |-> ns, k |-> 0, fail |-> f, cancel |-> "never"] :
            f \in Failures(ns, 0, 0)} :
         ns \in FanSources}

\* The same, of MaxRegions Regions in all, with a context the caller may cancel.
FanCancelConfigs ==
  {[c EXCEPT !.cancel = k] :
     c \in {d \in FanConfigs : Sum(d.ns) <= MaxRegions}, k \in {"never", "Canceled"}}

ChainConfigs ==
  UNION {{[shape |-> "chain", ns |-> <<n>>, k |-> k, fail |-> f, cancel |-> c] :
            f \in Failures(<<n>>, k, n), c \in CancelKinds} :
         n \in 0..MaxRegions, k \in 0..MaxValves}

\* A stream run (integration_test.go, setupFileToFile): a source file of cfg.size bytes read
\* by cfg.shards io.Source readers, under Fan when cfg.fan, into cfg.m Pool targets, or into
\* io.Sink when cfg.m = 0, over NewBuffer(cfg.bufferSize, cfg.poolSize).  cfg.fail is
\* <<"none", 0, 0>>, <<"read", i, c>> (the c-th Read of source i's reader fails) or
\* <<"write", 0, c>> (the c-th WriteAt on the destination fails).  cfg.accept is the most
\* bytes one WriteAt on the destination accepts, 0 for a file, which accepts all.
StreamConfig(size, fan, shards, m, bufferSize, poolSize, fail, cancel) ==
  [shape |-> "io", ns |-> <<>>, k |-> 0, size |-> size, fan |-> fan, shards |-> shards,
   m |-> m, bufferSize |-> bufferSize, poolSize |-> poolSize, fail |-> fail,
   cancel |-> cancel, accept |-> 0]

\* Mutant of ShardSize: the shard size is rounded down.
ShardSizeFloor(size, shards) == size \div shards

\* shard: `maxShardSize := int64(math.Ceil(float64(totalSize) / float64(shards)))`
ShardSize(size, shards) == (size + shards - 1) \div shards

\* The bytes of the i-th of `shards` shards of a file of `size` bytes, and the Regions a
\* run makes of the file when every Read fills a buffer of bufferSize bytes.
ShardBytes(size, shards, i) ==
  LET per == ShardSize(size, shards)
      left == size - per * (i - 1)
  IN IF left <= 0 THEN 0 ELSE IF left < per THEN left ELSE per
NumRegions(size, shards, bufferSize) ==
  Sum([i \in 1..shards |-> (ShardBytes(size, shards, i) + bufferSize - 1) \div bufferSize])

\* TestPipe_FileToFile: Fan over the shards into Pool, nothing fails, context.Background();
\* files of up to MaxSize bytes that make up to MaxRegions Regions, over a pool of one
\* buffer (the smallest in which a buffer is reused and a buffer is dropped) of buffers
\* no larger than a shard (a larger one is filled like one of the shard's size).
RoundTripConfigs ==
  {StreamConfig(p[1], TRUE, p[2], p[3], p[4], 1, <<"none", 0, 0>>, "never") :
     p \in {q \in (0..MaxSize) \X (1..MaxSources) \X (1..MaxWriters) \X (1..MaxRegions) :
              /\ NumRegions(q[1], q[2], q[4]) <= MaxRegions
              /\ q[4] = 1 \/ q[4] <= ShardSize(q[1], q[2])}}

StreamFailures(size, shards) ==
  {<<"none", 0, 0>>}
    \cup {<<"read", i, c>> : i \in 1..shards, c \in 1..size}
    \cup {<<"write", 0, c>> : c \in 1..size}

\* Stream runs in which a Read or a WriteAt may fail and the caller may cancel, over
\* buffers of one byte and files of up to MaxRegions bytes; without Fan there is one
\* reader, anchored at offset 0, and cfg.m = 0 is io.Sink.
StreamConfigs ==
  UNION {{StreamConfig(size, sh[1], sh[2], m, 1, 1, f, cancel) :
            f \in StreamFailures(size, sh[2]), cancel \in {"never", "Canceled"}} :
         size \in 0..MaxRegions, m \in 0..MaxWriters,
         sh \in {<<FALSE, 1>>} \cup {<<TRUE, k>> : k \in 1..MaxSources}}

\* One reader over the whole file into io.Sink (setupFileToFile with one reader and one
\* writer): a Read or a WriteAt may fail and the caller may cancel.
CopyConfigs ==
  UNION {{StreamConfig(size, FALSE, 1, 0, bufferSize, poolSize, f, cancel) :
            f \in StreamFailures(size, 1), cancel \in {"never", "Canceled"}} :
         size \in 0..MaxSize, bufferSize \in 1..MaxRegions, poolSize \in 0..MaxRegions}

\* One reader over the whole file into io.Sink (m = 0) or Pool over a destination that
\* accepts at most accept bytes per WriteAt and reports no error for the rest.
ShortConfigs ==
  {[StreamConfig(p[1], FALSE, 1, p[2], p[3], 1, <<"none", 0, 0>>, "never")
      EXCEPT !.accept = p[4]] :
     p \in (0..MaxSize) \X (0..MaxWriters) \X (1..MaxRegions) \X (1..MaxRegions)}

\* NewBuffer(bufferSize, poolSize) on its own, called by MaxSources goroutines.
BufferConfigs ==
  {StreamConfig(0, FALSE, 1, 0, MaxRegions, poolSize, <<"none", 0, 0>>, "never") :
     poolSize \in 0..MaxRegions}

\* ------------------------------------------------------------- channels
Cancelled == ctxErr # NoErr                       \* ctx.Err() != nil
IsClosed(c) == closes[c] > 0
Offers(c) == {s \in Tasks : pc[s] = "send" /\ outCh[s] = c}   \* senders blocked in `c <- r`
DoneFull == Len(done) >= DoneCap

\* Where source i's Write stands once r Regions are sent: the next send, the error, the close.
SourceNextPc(i, r) ==
  IF r < cfg.ns[i] THEN "send"
  ELSE IF cfg.fail[1] = "source" /\ cfg.fail[2] = i THEN "err" ELSE "close"
SourceNextHeld(i, r) == IF r < cfg.ns[i] THEN TestRegion(i, r + 1) ELSE NoRegion

\* Where source i's Write starts, and the Region it holds then: an io source at its first
\* Read, a test source as above.
SourceStartPc(i) == IF cfg.shape = "io" THEN "read" ELSE SourceNextPc(i, 0)
SourceStartHeld(i) == IF cfg.shape = "io" THEN NoRegion ELSE SourceNextHeld(i, 0)

\* Where sender s stands once its `sink <- r` has completed, and the Region it holds next:
\* a source goes to its next iteration, a valve or a forwarder back to its receive.
SentPc(s) ==
  IF s \notin Sources THEN "recv"
  ELSE IF cfg.shape = "io" THEN "read"
  ELSE SourceNextPc(s[2], srcIdx[s[2]] + 1)
SentHeld(s) ==
  IF s \notin Sources \/ cfg.shape = "io" THEN NoRegion
  ELSE SourceNextHeld(s[2], srcIdx[s[2]] + 1)

\* `r, more := <-in` by task t: the hand-off with a sender s blocked in `in <- r`, which
\* completes s's send; or the channel is closed and t goes to `onClosed`.
Receive(t, onClosed) ==
  \/ \E s \in Offers(inCh[t]) :
       /\ pc' = [pc EXCEPT ![t] = "check", ![s] = SentPc(s)]
       /\ held' = [held EXCEPT ![t] = held[s], ![s] = SentHeld(s)]
       /\ srcIdx' = IF s \in Sources THEN [srcIdx EXCEPT ![s[2]] = @ + 1] ELSE srcIdx
  \/ /\ IsClosed(inCh[t])
     /\ Offers(inCh[t]) = {}
     /\ pc' = [pc EXCEPT ![t] = onClosed]
     /\ UNCHANGED <<held, srcIdx>>

\* `errs <- e` by stage t: blocks while the buffer is full.
SendErr(t, e) ==
  /\ ~DoneFull
  /\ done' = Append(done, e)
  /\ sent' = Append(sent, <<t, e>>)


\* -------------------------------------------------------------- context
\* cancel() of context.WithCancel: the first cancellation sets the error.
CancelNothing(e) == ctxErr
Cancel(e) == IF ctxErr = NoErr THEN e ELSE ctxErr

\* The caller cancels its context, or its deadline expires.  Before Pipe derives its own
\* context only the caller's is affected; afterwards the cancellation propagates.
CallerCancel ==
  /\ cfg.cancel # "never"
  /\ callerErr = NoErr
  /\ pipePc # "returned"
  /\ callerErr' = cfg.cancel
  /\ ctxErr' = IF pipePc = "idle" THEN ctxErr ELSE Cancel(cfg.cancel)
  /\ UNCHANGED <<cfg, ioVars, fanWait, stageVars, closes, pipeVars, done, testVars, sent>>

\* ------------------------------------------------- test source (pipe_test.go)
\* `if s.err != nil { errs <- s.err }`
SourceErr(i) ==
  /\ pc[Src(i)] = "err"
  /\ SendErr(Src(i), "srcErr")
  /\ pc' = [pc EXCEPT ![Src(i)] = "close"]
  /\ UNCHANGED <<cfg, ioVars, fanWait, inCh, outCh, held, closes, pipeVars, ctxVars, testVars>>

\* `defer close(sink)`
SourceClose(i) ==
  /\ pc[Src(i)] = "close"
  /\ closes' = [closes EXCEPT ![outCh[Src(i)]] = @ + 1]
  /\ pc' = [pc EXCEPT ![Src(i)] = "done"]
  /\ UNCHANGED <<cfg, ioVars, fanWait, inCh, outCh, held, pipeVars, done, ctxVars, testVars, sent>>

\* ------------------------------------------------------------ Fan (source.go)
NumSources == IF cfg.shape = "io" THEN cfg.shards ELSE Len(cfg.ns)

\* Mutant of FanWaited: fan.Write does not wait for its forwarders.
FanNotWaited == TRUE
FanWaitedForOne == NumSources = 0 \/ fanWait < NumSources

\* `waiter.Wait()` returns
FanWaited == fanWait = 0

\* fan.Write up to `waiter.Wait()`: one channel and one goroutine per source, then one
\* forwarding goroutine per channel, each counted in `waiter`.  (The closure's `i` is
\* the iteration's own, as the two-sources test needs.)
FanStart ==
  /\ pc[FAN] = "start"
  /\ LET sinks == [i \in 1..NumSources |-> Len(closes) + i]
     IN /\ closes' = closes \o [i \in 1..NumSources |-> 0]
        /\ pc' = [t \in Tasks |->
                   IF t = FAN THEN "wait"
                   ELSE IF \E i \in 1..NumSources : t = Src(i)
                     THEN SourceStartPc(t[2])
                   ELSE IF \E i \in 1..NumSources : t = Pass(i) THEN "recv"
                   ELSE pc[t]]
        /\ held' = [t \in Tasks |->
                     IF \E i \in 1..NumSources : t = Src(i)
                       THEN SourceStartHeld(t[2]) ELSE held[t]]
        /\ outCh' = [t \in Tasks |->
                      IF \E i \in 1..NumSources : t = Src(i) THEN sinks[t[2]]
                      ELSE IF \E i \in 1..NumSources : t = Pass(i) THEN outCh[FAN]
                      ELSE outCh[t]]
        /\ inCh' = [t \in Tasks |->
                     IF \E i \in 1..NumSources : t = Pass(i) THEN sinks[t[2]]
                     ELSE inCh[t]]
  /\ fanWait' = fanWait + NumSources
  /\ UNCHANGED <<cfg, ioVars, pipeVars, done, ctxVars, testVars, sent>>

\* `waiter.Wait()` and the deferred `close(sink)`
FanClose ==
  /\ pc[FAN] = "wait"
  /\ FanWaited
  /\ closes' = [closes EXCEPT ![outCh[FAN]] = @ + 1]
  /\ pc' = [pc EXCEPT ![FAN] = "done"]
  /\ UNCHANGED <<cfg, ioVars, fanWait, inCh, outCh, held, pipeVars, done, ctxVars, testVars, sent>>

\* fan.pass: `curr, more := <-in`; when the channel is closed pass returns and the
\* goroutine runs `waiter.Done()`
PassRecv(i) ==
  /\ pc[Pass(i)] = "recv"
  /\ Receive(Pass(i), "done")
  /\ fanWait' = IF Offers(inCh[Pass(i)]) = {} THEN fanWait - 1 ELSE fanWait
  /\ UNCHANGED <<cfg, ioVars, inCh, outCh, closes, pipeVars, done, ctxVars, observed, valveSeen, sent>>

\* fan.pass: `if !more || ctx.Err() != nil { return }` and the goroutine's `waiter.Done()`,
\* else on to `out <- curr`
PassCheck(i) ==
  /\ pc[Pass(i)] = "check"
  /\ IF Cancelled
       THEN /\ pc' = [pc EXCEPT ![Pass(i)] = "done"]
            /\ held' = [held EXCEPT ![Pass(i)] = NoRegion]
            /\ fanWait' = fanWait - 1
       ELSE /\ pc' = [pc EXCEPT ![Pass(i)] = "send"]
            /\ held' = held
            /\ fanWait' = fanWait
  /\ UNCHANGED <<cfg, ioVars, inCh, outCh, closes, pipeVars, done, ctxVars, testVars, sent>>

\* --------------------------------------------------- noopValve (pipe_test.go)
\* Whether valve j's f fails on the call it is about to make.
ValveFails(j) ==
  cfg.fail[1] = "valve" /\ cfg.fail[2] = j /\ cfg.fail[3] = Len(valveSeen[j]) + 1

\* Mutant of ValveAfterF: the Region is forwarded although f failed.
ValveAfterFForward(failed) == "send"
ValveAfterFSwallow(failed) == "recv"

\* After `v.f(r)`: `errs <- err; break` when it failed, `sink <- r` otherwise.
ValveAfterF(failed) == IF failed THEN "err" ELSE "send"

\* `r, more := <-source`
ValveRecv(j) ==
  /\ pc[Valve(j)] = "recv"
  /\ Receive(Valve(j), "close")
  /\ UNCHANGED <<cfg, ioVars, fanWait, inCh, outCh, closes, pipeVars, done, ctxVars, observed, valveSeen, sent>>

\* `if !more || ctx.Err() != nil { break }`, then `v.f(r)`
ValveCheck(j) ==
  /\ pc[Valve(j)] = "check"
  /\ IF Cancelled
       THEN /\ pc' = [pc EXCEPT ![Valve(j)] = "close"]
            /\ held' = [held EXCEPT ![Valve(j)] = NoRegion]
            /\ valveSeen' = valveSeen
       ELSE /\ pc' = [pc EXCEPT ![Valve(j)] = ValveAfterF(ValveFails(j))]
            /\ held' = held
            /\ valveSeen' = IF ValveFails(j) THEN valveSeen
                            ELSE [valveSeen EXCEPT ![j] = Append(@, held[Valve(j)])]
  /\ UNCHANGED <<cfg, ioVars, fanWait, inCh, outCh, closes, pipeVars, done, ctxVars, srcIdx, observed, sent>>

\* `errs <- err; break`
ValveErr(j) ==
  /\ pc[Valve(j)] = "err"
  /\ SendErr(Valve(j), "valveErr")
  /\ pc' = [pc EXCEPT ![Valve(j)] = "close"]
  /\ held' = [held EXCEPT ![Valve(j)] = NoRegion]
  /\ UNCHANGED <<cfg, ioVars, fanWait, inCh, outCh, closes, pipeVars, ctxVars, testVars>>

\* `defer close(sink)`
ValveClose(j) ==
  /\ pc[Valve(j)] = "close"
  /\ closes' = [closes EXCEPT ![outCh[Valve(j)]] = @ + 1]
  /\ pc' = [pc EXCEPT ![Valve(j)] = "done"]
  /\ UNCHANGED <<cfg, ioVars, fanWait, inCh, outCh, held, pipeVars, done, ctxVars, testVars, sent>>

\* --------------------------------------------------- test sink (pipe_test.go)
SinkFails == cfg.fail[1] = "sink" /\ cfg.fail[3] = Len(observed) + 1

\* `r, more := <-source`
SinkRecv ==
  /\ pc[SINK] = "recv"
  /\ Receive(SINK, "nil")
  /\ UNCHANGED <<cfg, ioVars, fanWait, inCh, outCh, closes, pipeVars, done, ctxVars, observed, valveSeen, sent>>

\* `if !more || ctx.Err() != nil { break }`, then `s.f(r)`
SinkCheck ==
  /\ pc[SINK] = "check"
  /\ held' = [held EXCEPT ![SINK] = NoRegion]
  /\ IF Cancelled
       THEN pc' = [pc EXCEPT ![SINK] = "nil"] /\ observed' = observed
       ELSE IF SinkFails
         THEN pc' = [pc EXCEPT ![SINK] = "err"] /\ observed' = observed
         ELSE pc' = [pc EXCEPT ![SINK] = "recv"] /\ observed' = Append(observed, held[SINK])
  /\ UNCHANGED <<cfg, ioVars, fanWait, inCh, outCh, closes, pipeVars, done, ctxVars, srcIdx, valveSeen, sent>>

\* `errs <- err; break`
SinkErr ==
  /\ pc[SINK] = "err"
  /\ SendErr(SINK, "sinkErr")
  /\ pc' = [pc EXCEPT ![SINK] = "nil"]
  /\ UNCHANGED <<cfg, ioVars, fanWait, inCh, outCh, held, closes, pipeVars, ctxVars, testVars>>

\* `errs <- nil`
SinkNil ==
  /\ pc[SINK] = "nil"
  /\ SendErr(SINK, Nil)
  /\ pc' = [pc EXCEPT ![SINK] = "done"]
  /\ UNCHANGED <<cfg, ioVars, fanWait, inCh, outCh, held, closes, pipeVars, ctxVars, testVars>>


\* --------------------------------------------- stream adapters (package io)
Min(a, b) == IF a <= b THEN a ELSE b
Max(a, b) == IF a >= b THEN a ELSE b

\* The source file's byte at offset o (fillFile writes random data; every offset differs).
SrcByte(o) == o + 1

\* shard, for the i-th source (i from 1): `rOff := maxShardSize * int64(i)`, `f.Seek(rOff, 0)`,
\* `io.LimitedReader{R: f, N: maxShardSize}`, `pipeio.Source(limited, rOff, bufferPool)`.
\* setupFileToFile with one reader: `pipeio.Source(f, 0, buff)`, the whole file.
Shard(i) ==
  LET rOff == ShardSize(cfg.size, cfg.shards) * (i - 1)
  IN [off |-> rOff, pos |-> rOff, N |-> ShardSize(cfg.size, cfg.shards)]

\* pooledBuffer.Get by source i: the queue's first slice, or `make([]byte, b.size)`.  A
\* slice is the array it points into and its length; a new array is named after the source
\* and the Read it is made for.
Got(i) ==
  IF bufPool = <<>> THEN [buf |-> <<i, srcIdx[i] + 1>>, len |-> cfg.bufferSize]
  ELSE Head(bufPool)
AfterGetPoolKept == bufPool
AfterGetPool == IF bufPool = <<>> THEN bufPool ELSE Tail(bufPool)
Array(b) == IF b \in DOMAIN mem THEN mem[b] ELSE [x \in 1..cfg.bufferSize |-> 0]

\* The heap m once the arrays that neither a stage's Region (h) nor a queued slice (q)
\* points into are collected.
Live(h, q) ==
  {h[t].data.buf : t \in {u \in Tasks : h[u].off >= 0}} \cup {q[x].buf : x \in 1..Len(q)}
Collected(m, h, q) == [b \in DOMAIN m \cap Live(h, q) |-> m[b]]

PutAlways(slice) == Append(bufPool, slice)

\* pooledBuffer.Put: queue the slice, or drop it when the queue is full.
Put(slice) == IF Len(bufPool) < cfg.poolSize THEN Append(bufPool, slice) ELSE bufPool

\* pooledBuffer.Get and Put: each is one select with a default case, ready whatever the
\* queue holds.
GetReadyQueued == bufPool # <<>>
GetReady == TRUE
PutReady == TRUE

\* Goroutine i, a user of the Buffer interface, decides on another Get.
BufCall(i) ==
  /\ pc[Src(i)] \in {"off", "idle"}
  /\ srcIdx[i] < MaxRegions
  /\ pc' = [pc EXCEPT ![Src(i)] = "get"]
  /\ UNCHANGED <<cfg, ioVars, fanWait, inCh, outCh, held, closes, pipeVars, done, ctxVars,
                 testVars, sent>>

\* Goroutine i's `Get()`: the queue's first slice, or `make([]byte, b.size)`.
BufGet(i) ==
  /\ pc[Src(i)] = "get"
  /\ GetReady
  /\ held' = [held EXCEPT ![Src(i)] = [off |-> 0, data |-> Got(i)]]
  /\ bufPool' = AfterGetPool
  /\ getCalls' = getCalls + 1
  /\ putCalls' = putCalls
  /\ mem' = [b \in DOMAIN mem \cup {Got(i).buf} |-> Array(b)]
  /\ srcIdx' = [srcIdx EXCEPT ![i] = @ + 1]
  /\ pc' = [pc EXCEPT ![Src(i)] = "hold"]
  /\ UNCHANGED <<cfg, fanWait, inCh, outCh, closes, pipeVars, done, ctxVars, observed,
                 valveSeen, sent, rd, dest, writers, poolWait, written, target, writeCalls>>

\* Goroutine i's `Put(buff)` of the slice it holds.
BufPut(i) ==
  /\ pc[Src(i)] = "hold"
  /\ PutReady
  /\ bufPool' = Put(held[Src(i)].data)
  /\ putCalls' = putCalls + 1
  /\ getCalls' = getCalls
  /\ held' = [held EXCEPT ![Src(i)] = NoRegion]
  /\ mem' = Collected(mem, held', bufPool')
  /\ pc' = [pc EXCEPT ![Src(i)] = "idle"]
  /\ UNCHANGED <<cfg, fanWait, inCh, outCh, closes, pipeVars, done, ctxVars, testVars, sent,
                 rd, dest, writers, poolWait, written, target, writeCalls>>

\* The bytes source i's reader has left: LimitedReader.N and the file's end bound them.
Available(i) == Min(rd[i].N, Max(cfg.size - rd[i].pos, 0))

\* Whether the Read source i is about to make fails.
ReadFails(i) ==
  cfg.fail[1] = "read" /\ cfg.fail[2] = i /\ cfg.fail[3] = srcIdx[i] + 1

EmittedWhole(i, data, n) == [off |-> rd[i].off, data |-> data]

\* io source.Write: `r := pipe.Region{Data: data[:n], Off: b.off}`
Emitted(i, data, n) == [off |-> rd[i].off, data |-> [buf |-> data.buf, len |-> n]]

\* io source.Write, one iteration up to the send: `data := b.buff.Get()`,
\* `n, err := reader.Read(data)`; a failed Read goes to `errs <- err`, end of file (n = 0,
\* io.EOF) breaks and runs the deferred `close(sink)`, and n > 0 bytes make the Region
\* {data[:n], b.off}.
\* A file's Read fills data as far as bytes are left.  `b.off += n`, which follows the
\* send, is applied here: b.off is read by this goroutine only.  (`done` is set only
\* together with n = 0, which breaks: the loop condition never sees it true.)
IoSourceRead(i) ==
  /\ pc[Src(i)] = "read"
  /\ LET data == Got(i)
         n == Min(data.len, Available(i))
         from == rd[i].pos
     IN /\ bufPool' = AfterGetPool
        /\ getCalls' = getCalls + 1
        /\ putCalls' = putCalls
        /\ IF ReadFails(i) \/ n = 0
             THEN /\ pc' = [pc EXCEPT ![Src(i)] = IF ReadFails(i) THEN "err" ELSE "done"]
                  /\ closes' = IF ReadFails(i) THEN closes
                                ELSE [closes EXCEPT ![outCh[Src(i)]] = @ + 1]
                  /\ mem' = Collected(mem, held, AfterGetPool)
                  /\ UNCHANGED <<rd, held>>
             ELSE /\ pc' = [pc EXCEPT ![Src(i)] = "send"]
                  /\ mem' = [b \in DOMAIN mem \cup {data.buf} |->
                               IF b # data.buf THEN mem[b]
                               ELSE [x \in 1..cfg.bufferSize |->
                                       IF x <= n THEN SrcByte(from + x - 1) ELSE Array(b)[x]]]
                  /\ rd' = [rd EXCEPT ![i] = [off |-> @.off + n, pos |-> @.pos + n, N |-> @.N - n]]
                  /\ held' = [held EXCEPT ![Src(i)] = Emitted(i, data, n)]
                  /\ closes' = closes
  /\ UNCHANGED <<cfg, fanWait, inCh, outCh, pipeVars, done, ctxVars, testVars, sent,
                 dest, writers, poolWait, written, target, writeCalls>>

\* io source.Write: `errs <- err; return`, on to the deferred close
IoSourceErr(i) ==
  /\ pc[Src(i)] = "err"
  /\ SendErr(Src(i), "readErr")
  /\ pc' = [pc EXCEPT ![Src(i)] = "close"]
  /\ UNCHANGED <<cfg, ioVars, fanWait, inCh, outCh, held, closes, pipeVars, ctxVars, testVars>>

\* io source.Write: `defer close(sink)` after the return that follows a failed Read
IoSourceClose(i) ==
  /\ pc[Src(i)] = "close"
  /\ closes' = [closes EXCEPT ![outCh[Src(i)]] = @ + 1]
  /\ pc' = [pc EXCEPT ![Src(i)] = "done"]
  /\ UNCHANGED <<cfg, ioVars, fanWait, inCh, outCh, held, pipeVars, done, ctxVars, testVars, sent>>

\* Whether the WriteAt about to be made fails.
WriteFails == cfg.fail[1] = "write" /\ cfg.fail[3] = writeCalls + 1

\* How many of the len bytes offered a WriteAt that does not fail accepts: a file takes
\* all, a destination of limited appetite cfg.accept of them.
Accepted(len) == IF cfg.accept = 0 THEN len ELSE Min(len, cfg.accept)

\* The file d after WriteAt(p, off): p's bytes at off.., the file grown to hold them.
WriteAt(d, p, off) ==
  [o \in 0..(Max(Cardinality(DOMAIN d), off + Len(p)) - 1) |->
     IF o >= off /\ o < off + Len(p) THEN p[o - off + 1]
     ELSE IF o \in DOMAIN d THEN d[o] ELSE 0]

\* The bytes of slice [from:] of a Region's data.
Bytes(data, from) == [x \in 1..(data.len - from) |-> Array(data.buf)[from + x]]

\* One iteration of the write loop of task t (a Pool write goroutine, or io.Sink):
\* `n, err := writer.WriteAt(data.Data[written:], data.Off)`, then `errs <- err` when it
\* failed, else `written += n` and the loop's test `written < len(data.Data)`.
WriteLoop(t, after) ==
  /\ writeCalls' = writeCalls + 1
  /\ IF WriteFails
       THEN /\ pc' = [pc EXCEPT ![t] = "err"]
            /\ UNCHANGED <<dest, written>>
       ELSE LET p == Bytes(held[t].data, written[t])
                n == Accepted(Len(p))
            IN /\ dest' = WriteAt(dest, SubSeq(p, 1, n), held[t].off)
               /\ written' = [written EXCEPT ![t] = @ + n]
               /\ pc' = [pc EXCEPT ![t] =
                           IF written[t] + n < held[t].data.len THEN "write" ELSE after]

\* pool.Read: `data, more := <-source`
PoolRecv ==
  /\ pc[SINK] = "recv"
  /\ Receive(SINK, "wait")
  /\ UNCHANGED <<cfg, ioVars, fanWait, inCh, outCh, closes, pipeVars, done, ctxVars, observed,
                 valveSeen, sent>>

\* pool.Read: `if !more || ctx.Err() != nil { break }`, else `waiter.Add(1)`
PoolCheck ==
  /\ pc[SINK] = "check"
  /\ IF Cancelled
       THEN /\ pc' = [pc EXCEPT ![SINK] = "wait"]
            /\ held' = [held EXCEPT ![SINK] = NoRegion]
            /\ poolWait' = poolWait
       ELSE /\ pc' = [pc EXCEPT ![SINK] = "acquire"]
            /\ held' = held
            /\ poolWait' = poolWait + 1
  /\ UNCHANGED <<cfg, fanWait, inCh, outCh, closes, pipeVars, done, ctxVars, testVars, sent,
                 mem, bufPool, getCalls, putCalls, rd, dest, writers, written, target, writeCalls>>

\* The write goroutines pool.Read has started so far.
Started == {t \in Workers : pc[t] # "off"}

AfterAcquireKept == writers

\* pool.Read: p.writers once `<-p.writers` has taken its first value
AfterAcquire == Tail(writers)

\* pool.Read: `writer := <-p.writers`, which waits for an idle target, and `go func()`
\* with `written := 0`
PoolAcquire ==
  /\ pc[SINK] = "acquire"
  /\ writers # <<>>
  /\ LET w == Worker(Cardinality(Started) + 1)
     IN /\ pc' = [pc EXCEPT ![SINK] = "recv", ![w] = "write"]
        /\ held' = [held EXCEPT ![SINK] = NoRegion, ![w] = held[SINK]]
        /\ target' = [target EXCEPT ![w] = Head(writers)]
        /\ written' = [written EXCEPT ![w] = 0]
  /\ writers' = AfterAcquire
  /\ UNCHANGED <<cfg, fanWait, inCh, outCh, closes, pipeVars, done, ctxVars, testVars, sent,
                 mem, bufPool, getCalls, putCalls, rd, dest, poolWait, writeCalls>>

\* pool.Read's goroutine: the write loop
WorkerWrite(n) ==
  /\ pc[Worker(n)] = "write"
  /\ WriteLoop(Worker(n), "release")
  /\ UNCHANGED <<cfg, fanWait, inCh, outCh, held, closes, pipeVars, done, ctxVars, testVars,
                 sent, mem, bufPool, getCalls, putCalls, rd, writers, poolWait, target>>

\* pool.Read's goroutine: `errs <- fmt.Errorf(...); return`
WorkerErr(n) ==
  /\ pc[Worker(n)] = "err"
  /\ SendErr(Worker(n), "writeErr")
  /\ pc' = [pc EXCEPT ![Worker(n)] = "done"]
  /\ UNCHANGED <<cfg, ioVars, fanWait, inCh, outCh, held, closes, pipeVars, ctxVars, testVars>>

\* pool.Read's goroutine: `p.writers <- writer`
WorkerRelease(n) ==
  /\ pc[Worker(n)] = "release"
  /\ writers' = Append(writers, target[Worker(n)])
  /\ target' = [target EXCEPT ![Worker(n)] = 0]
  /\ written' = [written EXCEPT ![Worker(n)] = 0]
  /\ pc' = [pc EXCEPT ![Worker(n)] = "put"]
  /\ UNCHANGED <<cfg, fanWait, inCh, outCh, held, closes, pipeVars, done, ctxVars, testVars,
                 sent, mem, bufPool, getCalls, putCalls, rd, dest, poolWait, writeCalls>>

\* pool.Read's goroutine: `p.buff.Put(data.Data)`
WorkerPut(n) ==
  /\ pc[Worker(n)] = "put"
  /\ bufPool' = Put(held[Worker(n)].data)
  /\ putCalls' = putCalls + 1
  /\ getCalls' = getCalls
  /\ held' = [held EXCEPT ![Worker(n)] = NoRegion]
  /\ mem' = Collected(mem, held', bufPool')
  /\ pc' = [pc EXCEPT ![Worker(n)] = "signal"]
  /\ UNCHANGED <<cfg, fanWait, inCh, outCh, closes, pipeVars, done, ctxVars, testVars, sent,
                 rd, dest, writers, poolWait, written, target, writeCalls>>

\* pool.Read's goroutine: `waiter.Done()`
WorkerDone(n) ==
  /\ pc[Worker(n)] = "signal"
  /\ poolWait' = poolWait - 1
  /\ pc' = [pc EXCEPT ![Worker(n)] = "done"]
  /\ UNCHANGED <<cfg, fanWait, inCh, outCh, held, closes, pipeVars, done, ctxVars, testVars,
                 sent, mem, bufPool, getCalls, putCalls, rd, dest, writers, written, target, writeCalls>>

PoolNotWaited == TRUE

\* pool.Read: what `waiter.Wait()` waits for
PoolWaited == poolWait = 0

\* pool.Read: `waiter.Wait()` returns
PoolWait ==
  /\ pc[SINK] = "wait"
  /\ PoolWaited
  /\ pc' = [pc EXCEPT ![SINK] = "nil"]
  /\ UNCHANGED <<cfg, ioVars, fanWait, inCh, outCh, held, closes, pipeVars, done, ctxVars,
                 testVars, sent>>

\* pool.Read: `errs <- nil`
PoolNil ==
  /\ pc[SINK] = "nil"
  /\ SendErr(SINK, Nil)
  /\ pc' = [pc EXCEPT ![SINK] = "done"]
  /\ UNCHANGED <<cfg, ioVars, fanWait, inCh, outCh, held, closes, pipeVars, ctxVars, testVars>>

\* io sink.Read: `data, more := <-source`
IoSinkRecv ==
  /\ pc[SINK] = "recv"
  /\ Receive(SINK, "nil")
  /\ UNCHANGED <<cfg, ioVars, fanWait, inCh, outCh, closes, pipeVars, done, ctxVars, observed,
                 valveSeen, sent>>

\* io sink.Read: `if !more || ctx.Err() != nil { break }`, else `written := 0`
IoSinkCheck ==
  /\ pc[SINK] = "check"
  /\ IF Cancelled
       THEN /\ pc' = [pc EXCEPT ![SINK] = "nil"]
            /\ held' = [held EXCEPT ![SINK] = NoRegion]
       ELSE /\ pc' = [pc EXCEPT ![SINK] = "write"]
            /\ held' = held
  /\ written' = [written EXCEPT ![SINK] = 0]
  /\ UNCHANGED <<cfg, fanWait, inCh, outCh, closes, pipeVars, done, ctxVars, testVars, sent,
                 mem, bufPool, getCalls, putCalls, rd, dest, writers, poolWait, target, writeCalls>>

\* io sink.Read: the write loop
IoSinkWrite ==
  /\ pc[SINK] = "write"
  /\ WriteLoop(SINK, "put")
  /\ UNCHANGED <<cfg, fanWait, inCh, outCh, held, closes, pipeVars, done, ctxVars, testVars,
                 sent, mem, bufPool, getCalls, putCalls, rd, writers, poolWait, target>>

SinkAfterErrPut == "put"
SinkAfterErrRecv == "recv"

\* io sink.Read: `return` once the error is sent
SinkAfterErr == "done"

\* io sink.Read: `errs <- fmt.Errorf(...); return`
IoSinkErr ==
  /\ pc[SINK] = "err"
  /\ SendErr(SINK, "writeErr")
  /\ pc' = [pc EXCEPT ![SINK] = SinkAfterErr]
  /\ UNCHANGED <<cfg, ioVars, fanWait, inCh, outCh, held, closes, pipeVars, ctxVars, testVars>>

\* io sink.Read: `w.buff.Put(data.Data)`
IoSinkPut ==
  /\ pc[SINK] = "put"
  /\ bufPool' = Put(held[SINK].data)
  /\ putCalls' = putCalls + 1
  /\ getCalls' = getCalls
  /\ held' = [held EXCEPT ![SINK] = NoRegion]
  /\ mem' = Collected(mem, held', bufPool')
  /\ pc' = [pc EXCEPT ![SINK] = "recv"]
  /\ UNCHANGED <<cfg, fanWait, inCh, outCh, closes, pipeVars, done, ctxVars, testVars, sent,
                 rd, dest, writers, poolWait, written, target, writeCalls>>

\* io sink.Read: `errs <- nil`
IoSinkNil ==
  /\ pc[SINK] = "nil"
  /\ SendErr(SINK, Nil)
  /\ pc' = [pc EXCEPT ![SINK] = "done"]
  /\ UNCHANGED <<cfg, ioVars, fanWait, inCh, outCh, held, closes, pipeVars, ctxVars, testVars>>

\* ------------------------------------------------------------ Pipe (pipe.go)
\* Mutant of OpenedValve: the valves are opened front to back.
OpenedValveForward(b) == cfg.k + 1 - b

\* The valve Pipe.open opens in the iteration whose loop variable is b:
\* `for back := len(p.valves) - 1; back >= 0; back--  { p.valves[back].Open(...) }`
OpenedValve(b) == b

\* `ctx, cancel := context.WithCancel(ctx)`, `done := make(chan error, 1)` and the head of
\* Pipe.open: `connectors[0] = make(chan Region)`.
PipeStart ==
  /\ pipePc = "idle"
  /\ ctxErr' = callerErr
  /\ closes' = Append(closes, 0)
  /\ connectors' = <<Len(closes) + 1>>
  /\ back' = cfg.k
  /\ pipePc' = IF cfg.k = 0 THEN "spawn" ELSE "open"
  /\ UNCHANGED <<cfg, ioVars, fanWait, stageVars, done, callerErr, result, testVars, sent>>

\* One iteration of Pipe.open's loop: noopValve.Open makes the valve's source channel,
\* starts its goroutine writing to `out`, and returns the source channel.
PipeOpen ==
  /\ pipePc = "open"
  /\ back >= 1
  /\ LET v == Valve(OpenedValve(back))
         out == connectors[Len(connectors)]
         in == Len(closes) + 1
     IN /\ closes' = Append(closes, 0)
        /\ pc' = [pc EXCEPT ![v] = "recv"]
        /\ inCh' = [inCh EXCEPT ![v] = in]
        /\ outCh' = [outCh EXCEPT ![v] = out]
        /\ connectors' = Append(connectors, in)
  /\ back' = back - 1
  /\ pipePc' = IF back = 1 THEN "spawn" ELSE "open"
  /\ UNCHANGED <<cfg, ioVars, fanWait, held, done, ctxVars, result, testVars, sent>>

\* p.source: the goroutine `go p.source.Write(ctx, first, done)` starts, and where it
\* stands first.
UsesFan == cfg.shape = "fan" \/ (cfg.shape = "io" /\ cfg.fan)
TopSource == IF UsesFan THEN FAN ELSE Src(1)
TopSourcePc == IF UsesFan THEN "start" ELSE SourceStartPc(1)
TopSourceHeld == IF UsesFan THEN NoRegion ELSE SourceStartHeld(1)

\* `go func() { go p.source.Write(ctx, first, done); p.sink.Read(ctx, last, done) }()`
PipeSpawn ==
  /\ pipePc = "spawn"
  /\ pc' = [pc EXCEPT ![TopSource] = TopSourcePc, ![SINK] = "recv"]
  /\ held' = [held EXCEPT ![TopSource] = TopSourceHeld]
  /\ outCh' = [outCh EXCEPT ![TopSource] = connectors[Len(connectors)]]
  /\ inCh' = [inCh EXCEPT ![SINK] = connectors[1]]
  /\ pipePc' = "select"
  /\ UNCHANGED <<cfg, ioVars, fanWait, closes, connectors, back, result, done, ctxVars, testVars, sent>>

\* Mutants of Returned: Pipe returns ctx.Err() after its own cancel(); Pipe drops the error.
ReturnedAfterCancel(err) == "Canceled"
ReturnedSwallowed(err) == Nil

\* `return err`: what Pipe returns for the value err taken from done
Returned(err) == err

\* Mutant of ReturnedCtx: Pipe returns context.Canceled whatever ended the context.
ReturnedCtxCanceled == "Canceled"

\* `return ctx.Err()`
ReturnedCtx == ctxErr

\* `case err := <-done: cancel(); return err`
PipeDone ==
  /\ pipePc = "select"
  /\ done # <<>>
  /\ result' = Returned(Head(done))
  /\ done' = Tail(done)
  /\ ctxErr' = Cancel("Canceled")
  /\ pipePc' = "returned"
  /\ UNCHANGED <<cfg, ioVars, fanWait, stageVars, closes, connectors, back, callerErr, testVars, sent>>

\* `case <-ctx.Done(): return ctx.Err()`
PipeCtx ==
  /\ pipePc = "select"
  /\ Cancelled
  /\ result' = ReturnedCtx
  /\ pipePc' = "returned"
  /\ UNCHANGED <<cfg, ioVars, fanWait, stageVars, closes, connectors, back, done, ctxVars, testVars, sent>>

\* ------------------------------------------------------- specification
\* A run of New(source, sink, valves...).Pipe(ctx) with the stages of pipe_test.go.
InitRun ==
  /\ pc = [t \in Tasks |-> "off"]
  /\ inCh = [t \in Tasks |-> 0]
  /\ outCh = [t \in Tasks |-> 0]
  /\ held = [t \in Tasks |-> NoRegion]
  /\ closes = <<>>
  /\ pipePc = "idle"
  /\ connectors = <<>>
  /\ back = 0
  /\ done = <<>>
  /\ ctxErr = NoErr
  /\ callerErr = NoErr
  /\ result = NoErr
  /\ srcIdx = [i \in 1..MaxSources |-> 0]
  /\ fanWait = 0
  /\ observed = <<>>
  /\ valveSeen = [j \in 1..MaxValves |-> <<>>]
  /\ sent = <<>>
  /\ mem = <<>>
  /\ bufPool = <<>>
  /\ getCalls = 0
  /\ putCalls = 0
  /\ dest = <<>>
  /\ poolWait = 0
  /\ written = [t \in Tasks |-> 0]
  /\ target = [t \in Tasks |-> 0]
  /\ writeCalls = 0

\* No reader and no Pool target:
NoStream ==
  /\ rd = [i \in 1..MaxSources |-> [off |-> 0, pos |-> 0, N |-> 0]]
  /\ writers = <<>>

Init == cfg \in ChainConfigs /\ InitRun /\ NoStream

Next ==
  \/ CallerCancel
  \/ PipeStart
  \/ PipeOpen
  \/ PipeSpawn
  \/ PipeDone
  \/ PipeCtx
  \/ SourceErr(1)
  \/ SourceClose(1)
  \/ \E j \in 1..cfg.k : ValveRecv(j)
  \/ \E j \in 1..cfg.k : ValveCheck(j)
  \/ \E j \in 1..cfg.k : ValveErr(j)
  \/ \E j \in 1..cfg.k : ValveClose(j)
  \/ SinkRecv
  \/ SinkCheck
  \/ SinkErr
  \/ SinkNil

Spec == Init /\ [][Next]_vars

\* A run of New(Fan(sources...), sink).Pipe(context.Background()) with the stages of
\* pipe_test.go.
InitFan == cfg \in FanConfigs /\ InitRun /\ NoStream

NextFan ==
  \/ PipeStart
  \/ PipeSpawn
  \/ PipeDone
  \/ FanStart
  \/ FanClose
  \/ \E i \in 1..NumSources : SourceErr(i)
  \/ \E i \in 1..NumSources : SourceClose(i)
  \/ \E i \in 1..NumSources : PassRecv(i)
  \/ \E i \in 1..NumSources : PassCheck(i)
  \/ SinkRecv
  \/ SinkCheck
  \/ SinkNil

SpecFan == InitFan /\ [][NextFan]_vars

\* A run of New(Fan(sources...), sink).Pipe(ctx) with ctx the caller may cancel.
InitFanCancel == cfg \in FanCancelConfigs /\ InitRun /\ NoStream

NextFanCancel ==
  \/ CallerCancel
  \/ PipeStart
  \/ PipeSpawn
  \/ PipeDone
  \/ PipeCtx
  \/ FanStart
  \/ FanClose
  \/ \E i \in 1..NumSources : SourceErr(i)
  \/ \E i \in 1..NumSources : SourceClose(i)
  \/ \E i \in 1..NumSources : PassRecv(i)
  \/ \E i \in 1..NumSources : PassCheck(i)
  \/ SinkRecv
  \/ SinkCheck
  \/ SinkNil

SpecFanCancel == InitFanCancel /\ [][NextFanCancel]_vars

\* The readers shard made and Pool(buff, writers...): `p <- writers[i]` for every target.
Stream ==
  /\ rd = [i \in 1..MaxSources |->
            IF i <= cfg.shards THEN Shard(i) ELSE [off |-> 0, pos |-> 0, N |-> 0]]
  /\ writers = [w \in 1..cfg.m |-> w]

\* A run of TestPipe_FileToFile: New(Fan(shard(src, k)...), Pool(buff, writers...)).Pipe(
\* context.Background()).
InitRoundTrip == cfg \in RoundTripConfigs /\ InitRun /\ Stream

NextRoundTrip ==
  \/ PipeStart
  \/ PipeSpawn
  \/ PipeDone
  \/ FanStart
  \/ FanClose
  \/ \E i \in 1..NumSources : IoSourceRead(i)
  \/ \E i \in 1..NumSources : PassRecv(i)
  \/ \E i \in 1..NumSources : PassCheck(i)
  \/ PoolRecv
  \/ PoolCheck
  \/ PoolAcquire
  \/ \E n \in 1..MaxSize : WorkerWrite(n)
  \/ \E n \in 1..MaxSize : WorkerRelease(n)
  \/ \E n \in 1..MaxSize : WorkerPut(n)
  \/ \E n \in 1..MaxSize : WorkerDone(n)
  \/ PoolWait
  \/ PoolNil

SpecRoundTrip == InitRoundTrip /\ [][NextRoundTrip]_vars

\* A stream run in which a Read or a WriteAt may fail and the caller may cancel.
InitStream == cfg \in StreamConfigs /\ InitRun /\ Stream

UsesPool == cfg.m >= 1

NextStream ==
  \/ CallerCancel
  \/ PipeStart
  \/ PipeSpawn
  \/ PipeDone
  \/ PipeCtx
  \/ FanStart
  \/ FanClose
  \/ \E i \in 1..NumSources : IoSourceRead(i)
  \/ \E i \in 1..NumSources : IoSourceErr(i)
  \/ \E i \in 1..NumSources : IoSourceClose(i)
  \/ \E i \in 1..NumSources : PassRecv(i)
  \/ \E i \in 1..NumSources : PassCheck(i)
  \/ (UsesPool /\ PoolRecv)
  \/ (UsesPool /\ PoolCheck)
  \/ (UsesPool /\ PoolAcquire)
  \/ \E n \in 1..MaxSize : WorkerWrite(n)
  \/ \E n \in 1..MaxSize : WorkerErr(n)
  \/ \E n \in 1..MaxSize : WorkerRelease(n)
  \/ \E n \in 1..MaxSize : WorkerPut(n)
  \/ \E n \in 1..MaxSize : WorkerDone(n)
  \/ (UsesPool /\ PoolWait)
  \/ (UsesPool /\ PoolNil)
  \/ (~UsesPool /\ IoSinkRecv)
  \/ (~UsesPool /\ IoSinkCheck)
  \/ (~UsesPool /\ IoSinkWrite)
  \/ (~UsesPool /\ IoSinkErr)
  \/ (~UsesPool /\ IoSinkPut)
  \/ (~UsesPool /\ IoSinkNil)

SpecStream == InitStream /\ [][NextStream]_vars

\* A run of New(pipeio.Source(f, 0, buff), pipeio.Sink(dst, buff)).Pipe(ctx).
InitCopy == cfg \in CopyConfigs /\ InitRun /\ Stream

NextCopy ==
  \/ CallerCancel
  \/ PipeStart
  \/ PipeSpawn
  \/ PipeDone
  \/ PipeCtx
  \/ IoSourceRead(1)
  \/ IoSourceErr(1)
  \/ IoSourceClose(1)
  \/ IoSinkRecv
  \/ IoSinkCheck
  \/ IoSinkWrite
  \/ IoSinkErr
  \/ IoSinkPut
  \/ IoSinkNil

SpecCopy == InitCopy /\ [][NextCopy]_vars

\* A run of New(pipeio.Source(f, 0, buff), pipeio.Sink(dst, buff)) or of
\* New(pipeio.Source(f, 0, buff), pipeio.Pool(buff, dst...)) with context.Background(),
\* dst taking its bytes a few at a time.
InitShort == cfg \in ShortConfigs /\ InitRun /\ Stream

NextShort ==
  \/ PipeStart
  \/ PipeSpawn
  \/ PipeDone
  \/ IoSourceRead(1)
  \/ (UsesPool /\ PoolRecv)
  \/ (UsesPool /\ PoolAcquire)
  \/ (UsesPool /\ PoolCheck)
  \/ \E n \in 1..MaxSize : WorkerWrite(n)
  \/ \E n \in 1..MaxSize : WorkerRelease(n)
  \/ \E n \in 1..MaxSize : WorkerPut(n)
  \/ \E n \in 1..MaxSize : WorkerDone(n)
  \/ (UsesPool /\ PoolWait)
  \/ (UsesPool /\ PoolNil)
  \/ (~UsesPool /\ IoSinkRecv)
  \/ (~UsesPool /\ IoSinkCheck)
  \/ (~UsesPool /\ IoSinkWrite)
  \/ (~UsesPool /\ IoSinkPut)
  \/ (~UsesPool /\ IoSinkNil)

SpecShort == InitShort /\ [][NextShort]_vars

\* A Buffer shared by MaxSources goroutines, each getting and putting back in turn.
InitBuffer == cfg \in BufferConfigs /\ InitRun /\ NoStream

NextBuffer ==
  \/ \E i \in 1..MaxSources : BufCall(i)
  \/ \E i \in 1..MaxSources : BufGet(i)
  \/ \E i \in 1..MaxSources : BufPut(i)

SpecBuffer == InitBuffer /\ [][NextBuffer]_vars


\* ============================================================== claims
IsPrefix(a, b) == Len(a) <= Len(b) /\ \A i \in 1..Len(a) : a[i] = b[i]
Stages == {t \in Tasks : pc[t] # "off"}
Sends(t) == Cardinality({i \in 1..Len(sent) : sent[i][1] = t})
Placed == {sent[i][2] : i \in 1..Len(sent)}
Quiescent == ~ENABLED Next

\* C1: with no valves, no failing stage and a context that is never cancelled, the sink
\* observes a prefix of the source's Regions at every moment, Pipe returns nothing but nil,
\* the sink has observed all n Regions in order when Pipe returns, and the run cannot come
\* to rest before Pipe has returned.
C1_IdentityChain ==
  (cfg.k = 0 /\ cfg.fail[1] = "none" /\ cfg.cancel = "never") =>
    /\ IsPrefix(observed, TestRegions(1))
    /\ result \in {NoErr, Nil}
    /\ (pipePc = "returned" => result = Nil /\ observed = TestRegions(1))
    /\ (Quiescent => pipePc = "returned")

C1_Witness ==
  /\ cfg.k = 0 /\ cfg.fail[1] = "none" /\ cfg.cancel = "never" /\ cfg.ns[1] = MaxRegions
  /\ pipePc = "returned" /\ result = Nil /\ Len(observed) = MaxRegions

\* The source file, and what of the destination differs from it.
QuiescentRoundTrip == ~ENABLED NextRoundTrip
SourceFile == [o \in 0..(cfg.size - 1) |-> SrcByte(o)]
Corrupt == {o \in DOMAIN dest : o >= cfg.size \/ dest[o] \notin {0, SrcByte(o)}}

\* C2: a file of S bytes, sharded into k readers under Fan, piped into Pool with m targets:
\* the destination never holds a byte that differs from the source's at its offset (one
\* not yet written reads 0) and never grows beyond S; Pipe returns nothing but nil; when
\* Pipe returns the destination equals the source at every offset of [0, S); and the run
\* cannot come to rest before Pipe has returned.
C2_RoundTrip ==
  /\ Corrupt = {}
  /\ result \in {NoErr, Nil}
  /\ (pipePc = "returned" => dest = SourceFile)
  /\ (QuiescentRoundTrip => pipePc = "returned")

\* The largest file, read by the most readers and written by the most targets.
C2_Witness ==
  /\ cfg.size = MaxSize /\ cfg.shards = MaxSources /\ cfg.m = MaxWriters
  /\ pipePc = "returned" /\ result = Nil
  /\ dest = SourceFile
  /\ Cardinality(Started) = MaxRegions

\* C3: when the caller's context is never cancelled and a stage has placed a non-nil error
\* on done, that error is the first value placed, Pipe returns it and never nil, and the
\* run cannot come to rest before Pipe has returned.
C3_ErrorIsResult ==
  (cfg.cancel = "never" /\ Placed \ {Nil} # {}) =>
    /\ sent[1][2] # Nil
    /\ result \in {NoErr, sent[1][2]}
    /\ (Quiescent => pipePc = "returned")

C3_Witness ==
  /\ cfg.cancel = "never" /\ cfg.fail[1] = "source" /\ cfg.ns[1] >= 1
  /\ pipePc = "returned" /\ result = "srcErr"
  /\ Nil \in Placed

\* C4 as stated: whenever the caller's context was cancelled (or expired) during the run,
\* Pipe returns the context's error.
C4_AsStated ==
  (pipePc = "returned" /\ callerErr # NoErr) => result = callerErr

\* C4 amended: Pipe returns the context's error whenever it returns while done holds no
\* value, which it does only once the context is cancelled; and whatever Pipe returns
\* after the caller's cancellation is the caller context's error or a value a stage had
\* placed on done.
C4_CtxErrorUnlessTerminalValue ==
  [][/\ (pipePc = "select" /\ pipePc' = "returned" /\ done = <<>>) =>
          (callerErr # NoErr /\ result' = callerErr)
     /\ (pipePc' = "returned" /\ callerErr' # NoErr) =>
          (result' = callerErr' \/ result' \in Placed)]_vars

C4_Witness ==
  /\ pipePc = "returned" /\ callerErr = "DeadlineExceeded" /\ result = "DeadlineExceeded"
  /\ pc[SINK] = "check" /\ Len(observed) < cfg.ns[1] /\ sent = <<>>

\* C5: at the moment Pipe has returned, no stage goroutine is still running or blocked.
C5_AllStoppedAtReturn ==
  pipePc = "returned" => \A t \in Tasks : pc[t] \in {"off", "done"}

\* C6: once the run's context is cancelled and nothing more can happen, no task of the
\* stream adapters or of Fan is left in a hand-off send or receive.
QuiescentStream == ~ENABLED NextStream
C6_CancelledStagesTerminate ==
  (Cancelled /\ QuiescentStream) => \A t \in Tasks : pc[t] \notin {"send", "recv"}

\* C7: every stage places at most one value on the terminal-signal channel.
C7_AtMostOneSend == \A t \in Tasks : Sends(t) <= 1

\* C8: wiring makes k+1 channels and opens the valves last to first, each writing to the
\* channel made just before its own; so valve k writes to the sink's channel and valve 1
\* reads the source's.  At every moment what the sink observed is a prefix of what valve k
\* accepted, which is a prefix of what valve k-1 accepted, ..., a prefix of the source's
\* Regions; with no failure and no cancellation the sink ends having observed them all.
C8_Wired ==
  /\ Len(connectors) = cfg.k + 1
  /\ Len(closes) = cfg.k + 1
  /\ \A j \in 1..cfg.k :
       /\ outCh[Valve(j)] = connectors[cfg.k - j + 1]
       /\ inCh[Valve(j)] = connectors[cfg.k - j + 2]
C8_TransformThreading ==
  /\ (pipePc = "open" => \A j \in 1..cfg.k : (pc[Valve(j)] # "off") <=> (j > back))
  /\ (pipePc \in {"spawn", "select", "returned"} => C8_Wired)
  /\ (pc[Src(1)] # "off" => outCh[Src(1)] = connectors[cfg.k + 1])
  /\ (pc[SINK] # "off" => inCh[SINK] = connectors[1])
  /\ IsPrefix(observed, IF cfg.k = 0 THEN TestRegions(1) ELSE valveSeen[cfg.k])
  /\ \A j \in 2..cfg.k : IsPrefix(valveSeen[j], valveSeen[j - 1])
  /\ (cfg.k >= 1 => IsPrefix(valveSeen[1], TestRegions(1)))
  /\ (cfg.fail[1] = "none" /\ cfg.cancel = "never" /\ pc[SINK] = "done"
        => observed = TestRegions(1))

C8_Witness ==
  /\ cfg.k = MaxValves /\ cfg.ns[1] = MaxRegions /\ cfg.fail[1] = "none"
  /\ pc[SINK] = "done" /\ Len(observed) = MaxRegions
  /\ valveSeen[1] = observed /\ valveSeen[MaxValves] = observed

\* The valve of the configuration that fails, the call it fails on, and whether it has.
FailingValve == cfg.fail[2]
FailingCall == cfg.fail[3]
ValveHasFailed ==
  cfg.fail[1] = "valve" /\ (pc[Valve(FailingValve)] = "err" \/ Sends(Valve(FailingValve)) > 0)
Downstream(j) == {SINK} \cup {Valve(i) : i \in (j + 1)..cfg.k}

\* C9 as stated: once a valve has failed on its m-th Region, what Pipe returns is that
\* valve's error.
C9_AsStated ==
  (ValveHasFailed /\ pipePc = "returned") => result = "valveErr"

\* C9 amended: when valve j fails on its m-th Region, that Region never reaches a stage
\* downstream of j and the sink never observes more than the m-1 Regions before it; and
\* provided the caller's context is not cancelled during the run, Pipe returns the
\* valve's error and the run cannot come to rest before Pipe has returned.
C9_ValveFailure ==
  cfg.fail[1] = "valve" =>
    /\ Len(observed) <= FailingCall - 1
    /\ \A t \in Downstream(FailingValve) : held[t] # TestRegion(1, FailingCall)
    /\ \A i \in 1..Len(observed) : observed[i] # TestRegion(1, FailingCall)
    /\ (ValveHasFailed /\ pipePc = "returned" /\ callerErr = NoErr) => result = "valveErr"
    /\ (ValveHasFailed /\ Quiescent) => pipePc = "returned"

C9_Witness ==
  /\ cfg.fail = <<"valve", 1, MaxRegions>> /\ cfg.k = MaxValves /\ cfg.cancel = "never"
  /\ pipePc = "returned" /\ result = "valveErr"
  /\ Len(observed) = MaxRegions - 1 /\ pc[SINK] = "done"

\* The Regions of source i among those the sink observed, in the order observed.
QuiescentFan == ~ENABLED NextFan
FromSource(i) ==
  LET OfSource(r) == r.off \div 100 = i - 1
  IN SelectSeq(observed, OfSource)

\* C10: Fan over sources none of which fails, with a context never cancelled: at every
\* moment every observed Region is one of some source and the Regions observed from source
\* i are a prefix of source i's Regions (none duplicated, each source's order kept); when
\* Pipe returns it returns nil and the sink has observed every Region of every source;
\* and the run cannot come to rest before Pipe has returned.
C10_FanIn ==
  cfg.fail[1] = "none" =>
    /\ \A i \in 1..NumSources : IsPrefix(FromSource(i), TestRegions(i))
    /\ Len(observed) = Sum([i \in 1..NumSources |-> Len(FromSource(i))])
    /\ result \in {NoErr, Nil}
    /\ (pipePc = "returned" => \A i \in 1..NumSources : FromSource(i) = TestRegions(i))
    /\ (QuiescentFan => pipePc = "returned")

\* Source 2's Region is observed between the two Regions of source 1.
C10_Witness ==
  /\ cfg.fail[1] = "none" /\ cfg.cancel = "never"
  /\ NumSources >= 2 /\ cfg.ns[1] >= 2 /\ cfg.ns[2] >= 1
  /\ pipePc = "returned" /\ result = Nil
  /\ observed[1] = TestRegion(1, 1) /\ observed[2] = TestRegion(2, 1)
  /\ observed[3] = TestRegion(1, 2)

\* ------------------------------------------------------------ io.Sink failing
QuiescentCopy == ~ENABLED NextCopy

\* The WriteAt that is to fail has been issued: with a destination that accepts all it
\* is offered, the cfg.fail[3]-th WriteAt is the one for the cfg.fail[3]-th Region.
SinkHasFailed == cfg.fail[1] = "write" /\ writeCalls >= cfg.fail[3]

\* The destination holds the first n bytes of the source file and nothing else.
DestIsPrefix(n) == dest = [o \in 0..(Min(n, cfg.size) - 1) |-> SrcByte(o)]

\* C11 as stated: once the consumer has failed on the i-th Region, what Pipe returns is
\* that failure.
C11_AsStated ==
  (SinkHasFailed /\ pipePc = "returned") => result = "writeErr"

\* C11 amended: once io.Sink has failed on the i-th Region it receives, it issues no
\* further WriteAt, takes no further Region, the destination holds exactly the i-1 Regions
\* before it, in order, the failure is the only value the sink places on done; and
\* provided the caller's context is not cancelled during the run, Pipe returns that
\* failure and the run cannot come to rest before Pipe has returned.
C11_SinkFailure ==
  SinkHasFailed =>
    /\ writeCalls = cfg.fail[3]
    /\ pc[SINK] \in {"err", "done"}
    /\ DestIsPrefix((cfg.fail[3] - 1) * cfg.bufferSize)
    /\ \A i \in 1..Len(sent) : sent[i] = <<SINK, "writeErr">>
    /\ Sends(SINK) <= 1
    /\ (pipePc = "returned" /\ callerErr = NoErr) => result = "writeErr"
    /\ (QuiescentCopy /\ callerErr = NoErr) => (pipePc = "returned" /\ pc[SINK] = "done")

\* The sink fails on the second Region of a three-byte file read two bytes at a time.
C11_Witness ==
  /\ cfg.fail = <<"write", 0, 2>> /\ cfg.size = 3 /\ cfg.bufferSize = 2
  /\ SinkHasFailed /\ callerErr = NoErr
  /\ pipePc = "returned" /\ result = "writeErr"
  /\ dest = <<>> @@ (0 :> SrcByte(0)) @@ (1 :> SrcByte(1))

\* ------------------------------------------------------------ short writes
\* Task t has left its write loop with its Region: `written >= len(data.Data)`.
Flushed(t) == pc[t] \in {"release", "put"} /\ held[t].off >= 0

\* The destination holds the Region's data at the Region's offset.
Landed(r) ==
  \A x \in 1..r.data.len :
    /\ (r.off + x - 1) \in DOMAIN dest
    /\ dest[r.off + x - 1] = Array(r.data.buf)[x]

\* C12: once io.Sink or a write goroutine of Pool has flushed a Region {data, offset},
\* whatever number of bytes each WriteAt accepted, the destination bytes in
\* [offset, offset+len(data)) equal data.
C12_ShortWritesLand ==
  \A t \in {SINK} \cup Workers : Flushed(t) => Landed(held[t])

\* ------------------------------------------------------------ the Pool's targets
\* The write goroutines that hold a target: from `<-p.writers` to `p.writers <- writer`.
InFlight == {t \in Workers : target[t] # 0}
Idle == {writers[x] : x \in 1..Len(writers)}

\* C13: in Pool with m targets no target is held by two write goroutines at once nor
\* both held and idle, at most m write goroutines hold a target, every target is either
\* held or idle in p.writers, and pool.Read cannot take a target while all m are held.
C13_TargetsExclusive ==
  /\ \A t, u \in InFlight : target[t] = target[u] => t = u
  /\ \A t \in InFlight : target[t] \in (1..cfg.m) \ Idle
  /\ Cardinality(InFlight) <= cfg.m
  /\ Cardinality(Idle) = Len(writers)
  /\ Cardinality(InFlight) + Len(writers) = cfg.m
  /\ (pc[SINK] = "acquire" /\ Cardinality(InFlight) = cfg.m) => ~ENABLED PoolAcquire

\* Both targets of a Pool of two are held, by two write goroutines, one each.
C13_Witness ==
  /\ cfg.m = 2 /\ writers = <<>>
  /\ InFlight = {Worker(1), Worker(2)}
  /\ target[Worker(1)] # target[Worker(2)]
  /\ pc[Worker(1)] = "write" /\ pc[Worker(2)] = "write"

\* ------------------------------------------------------------ the Pool's completion
\* C14: once pool.Read is past waiter.Wait(), about to send nil or having sent it, every
\* write goroutine it started has returned and none holds a target or a Region.
C14_NilAfterWrites ==
  pc[SINK] \in {"nil", "done"} =>
    /\ \A t \in Workers : pc[t] \in {"off", "done"}
    /\ \A t \in Workers : held[t].off < 0
    /\ InFlight = {}
    /\ poolWait = 0

\* Pool has sent nil after two write goroutines, which ran at the same time, returned.
C14_Witness ==
  /\ cfg.m = 2 /\ Started = {Worker(1), Worker(2)}
  /\ pc[SINK] = "done" /\ sent = <<<<SINK, Nil>>>>
  /\ Cardinality(DOMAIN dest) = 2

\* ------------------------------------------------------------ the BufferPool
\* The slices checked out: got and not yet put back.
CheckedOut == {t \in Sources : pc[t] = "hold"}

\* A step that is goroutine i's Get, or its Put.
GetStep(i) == pc[Src(i)] = "get" /\ pc'[Src(i)] = "hold"
PutStep(i) == pc[Src(i)] = "hold" /\ pc'[Src(i)] = "idle"

C15_Ready ==
  \A i \in 1..MaxSources :
    /\ pc[Src(i)] = "get" => ENABLED BufGet(i)
    /\ pc[Src(i)] = "hold" => ENABLED BufPut(i)

C15_Step ==
  \A i \in 1..MaxSources :
    /\ (GetStep(i) /\ bufPool = <<>>) =>
         /\ held'[Src(i)].data.buf \notin Live(held, bufPool)
         /\ held'[Src(i)].data.len = cfg.bufferSize
         /\ bufPool' = <<>>
    /\ (PutStep(i) /\ Len(bufPool) >= cfg.poolSize) => bufPool' = bufPool

\* C15: a goroutine at Get, or at Put, can always take that step, whatever the queue holds
\* and whatever the other goroutines hold; a Get on an empty queue returns an array no
\* goroutine holds and the queue does not hold, of bufferSize bytes, and a Put on a full
\* queue leaves the queue as it is.
C15_NeverBlocks == [](C15_Ready) /\ [][C15_Step]_vars

\* P + 1 slices are checked out of a pool of capacity P = 1: the last Get allocated.
C15_Witness ==
  /\ cfg.poolSize = 1 /\ bufPool = <<>>
  /\ Cardinality(CheckedOut) = 2
  /\ held[Src(1)].data.buf # held[Src(2)].data.buf
  /\ srcIdx[1] = 2

\* ------------------------------------------------------------ the BufferPool's queue
C17_Step ==
  \A i \in 1..MaxSources :
    /\ PutStep(i) =>
         bufPool' = IF Len(bufPool) < cfg.poolSize
                      THEN Append(bufPool, held[Src(i)].data) ELSE bufPool
    /\ (GetStep(i) /\ bufPool # <<>>) =>
         /\ bufPool' = Tail(bufPool)
         /\ held'[Src(i)].data = Head(bufPool)
    /\ (GetStep(i) /\ bufPool = <<>>) => bufPool' = bufPool

\* Only goroutine 1 has called Get so far: its round-trips are sequential.
Sequential == \A i \in 2..MaxSources : srcIdx[i] = 0

\* C17: the queue never holds more than poolSize slices; a Put appends the slice when
\* fewer than poolSize are queued and otherwise leaves the queue as it is; a Get takes
\* the queue's first slice when there is one and leaves the empty queue empty; and while
\* one goroutine alone makes Get-then-Put round-trips on a pool of capacity >= 1, the only
\* array ever held or queued is the one its first Get allocated.
C17_QueueBounded ==
  /\ [](Len(bufPool) <= cfg.poolSize)
  /\ [][C17_Step]_vars
  /\ []((Sequential /\ cfg.poolSize >= 1) => Live(held, bufPool) \subseteq {<<1, 1>>})

\* Two sequential round-trips on a pool of capacity 2 have left the first array queued.
C17_Witness ==
  /\ cfg.poolSize = 2 /\ Sequential
  /\ srcIdx[1] = 2 /\ pc[Src(1)] = "idle"
  /\ Len(bufPool) = 1 /\ bufPool[1].buf = <<1, 1>>

\* ------------------------------------------------------------ the length Get returns
\* C16: the slice the Get a reader-backed producer is about to make returns has at least
\* bufferSize bytes.
C16_GetLength ==
  \A i \in 1..NumSources : pc[Src(i)] = "read" => Got(i).len >= cfg.bufferSize

\* ------------------------------------------------------------ buffer ownership
\* The stages (write goroutines included) whose Region points into array b, and the
\* places of the BufferPool's queue that do.
Holders(b) == {t \in Tasks : held[t].off >= 0 /\ held[t].data.buf = b}
Queued(b) == {x \in 1..Len(bufPool) : bufPool[x].buf = b}

\* C18: every array the BufferPool has handed out is, at every moment, referenced by at
\* most one of: a stage's Region (a Region being handed off counts for the sender until
\* the receiver has it), a write goroutine's Region, one place of the BufferPool's queue.
C18_SingleOwner ==
  \A b \in DOMAIN mem \cup Live(held, bufPool) :
    Cardinality(Holders(b)) + Cardinality(Queued(b)) <= 1

\* Under Fan the array shard 1 allocated for its first Read has come back through the
\* write goroutine and the BufferPool into shard 2's hands, as shard 2's Region.
C18_Witness ==
  /\ cfg.fan /\ cfg.shards = 2
  /\ Holders(<<1, 1>>) = {Src(2)}
  /\ Queued(<<1, 1>>) = {}
  /\ pc[Worker(1)] \in {"signal", "done"}

\* ------------------------------------------------------------ the reader-backed producer
\* Source i makes a Region in this step; source i is through.
Emits(i) == pc[Src(i)] = "read" /\ pc'[Src(i)] = "send"
Through(i) == pc[Src(i)] = "done"

C19_State ==
  \A i \in 1..NumSources :
    /\ rd[i].off - Shard(i).off = rd[i].pos - Shard(i).pos
    /\ pc[Src(i)] = "send" =>
         LET r == held[Src(i)]
         IN /\ r.data.len >= 1
            /\ r.off + r.data.len = rd[i].off
            /\ r.off = Shard(i).off => srcIdx[i] = 0
            /\ \A x \in 1..r.data.len :
                 Array(r.data.buf)[x] = SrcByte(Shard(i).pos + (r.off - Shard(i).off) + x - 1)
    /\ pc[Src(i)] # "off" => closes[outCh[Src(i)]] = IF Through(i) THEN 1 ELSE 0
    /\ Through(i) => (Available(i) = 0 /\ Sends(Src(i)) = 0 /\ held[Src(i)].off < 0)

C19_Step ==
  \A i \in 1..NumSources :
    /\ Emits(i) =>
         /\ held'[Src(i)].off = rd[i].off
         /\ srcIdx[i] = 0 => held'[Src(i)].off = Shard(i).off
         /\ rd'[i].off = rd[i].off + held'[Src(i)].data.len
         /\ rd'[i].pos = rd[i].pos + held'[Src(i)].data.len
    /\ rd'[i] # rd[i] => Emits(i)
    /\ held'[Src(i)] # held[Src(i)] => (Emits(i) \/ srcIdx'[i] = srcIdx[i] + 1)
    /\ Through(i) => (pc'[Src(i)] = "done" /\ closes'[outCh[Src(i)]] = 1)

\* C19: a reader-backed producer anchored at b emits only non-empty Regions, the first at
\* offset b, each at the running offset, which starts at b and advances by the length of
\* every Region emitted and by nothing else; a Region's data are the bytes read, those at
\* the file positions that follow the ones read before; the producer is through only at
\* end of stream, then holds no Region, has closed its output once (and never before),
\* has placed nothing on done, and does nothing more.
C19_Regions == [](C19_State) /\ [][C19_Step]_vars

\* The second shard, anchored at 2, of a three-byte file is through after one Region of
\* one byte read into a buffer of two, the first shard after one Region of two bytes.
C19_Witness ==
  /\ cfg.size = 3 /\ cfg.shards = 2 /\ cfg.bufferSize = 2
  /\ Through(1) /\ Through(2)
  /\ srcIdx[1] = 1 /\ srcIdx[2] = 1
  /\ rd[2].off = 3 /\ rd[1].off = 2
  /\ dest = <<>> @@ (0 :> SrcByte(0)) @@ (1 :> SrcByte(1)) @@ (2 :> SrcByte(2))

\* ------------------------------------------------------------ Fan's close
\* Fan's forwarders, and those that have returned.
Forwarders == {Pass(i) : i \in 1..NumSources}
FanClosed == pc[FAN] # "off" /\ IsClosed(outCh[FAN])

\* C20: no hand-off channel is ever closed twice; the shared output is closed exactly when
\* fan.Write has returned, and then every forwarder has returned, the wait group is at
\* zero, and no forwarder holds a Region or is at its send; whether a nested source
\* failed, the caller cancelled, or there is no nested source at all.
C20_ClosedOnceAfterAll ==
  /\ \A c \in DOMAIN closes : closes[c] <= 1
  /\ pc[FAN] # "off" => (FanClosed <=> pc[FAN] = "done")
  /\ FanClosed =>
       /\ \A t \in Forwarders : pc[t] = "done" /\ held[t] = NoRegion
       /\ fanWait = 0

\* A nested source failed, the caller cancelled, and Fan has closed the shared output
\* after both forwarders returned, one of them on seeing the cancellation.
C20_Witness ==
  /\ NumSources = 2 /\ cfg.fail[1] = "source" /\ callerErr = "Canceled"
  /\ FanClosed /\ closes[outCh[FAN]] = 1
  /\ \E i \in 1..NumSources : pc[Src(i)] = "send"

\* ------------------------------------------------------------ backpressure
\* The Regions the source has handed off: its sends that a receiver completed.
HandedOff == srcIdx[1]

\* The Regions the sink has received: those the valve next to it, valve cfg.k, accepted
\* and is no longer trying to send; with no valve, the source's own hand-offs.
SinkReceived ==
  IF cfg.k = 0 THEN srcIdx[1]
  ELSE Len(valveSeen[cfg.k]) - (IF pc[Valve(cfg.k)] = "send" THEN 1 ELSE 0)
SinkHolds == IF pc[SINK] = "check" THEN 1 ELSE 0

\* C21: in a chain with k valves, at every moment, whatever fails and whenever the
\* context is cancelled, the Regions the source has handed off exceed those the sink has
\* received by at most k; while the sink is in its loop the ones it has received are
\* those it has processed and the one in its hands; and every valve holds at most the one
\* Region it received last.
C21_Backpressure ==
  cfg.shape = "chain" =>
    /\ HandedOff - SinkReceived <= cfg.k
    /\ HandedOff - SinkReceived >= 0
    /\ pc[SINK] \in {"recv", "check"} =>
         /\ SinkReceived = Len(observed) + SinkHolds
         /\ HandedOff - (Len(observed) + SinkHolds) <= cfg.k
    /\ HandedOff - Len(observed) <= cfg.k + 1

\* One valve, two Regions: the valve is at its send with the second Region, which the
\* source could hand off only after the sink had taken the first.
C21_Witness ==
  /\ cfg.k = 1 /\ cfg.ns = <<2>> /\ cfg.fail[1] = "none" /\ callerErr = NoErr
  /\ HandedOff = 2 /\ SinkReceived = 1
  /\ pc[Valve(1)] = "send" /\ pc[SINK] = "recv" /\ Len(observed) = 1

\* ------------------------------------------------------------ delivery after the deadline
\* The context the stages see has expired with the caller's deadline.
Expired == Cancelled /\ callerErr = "DeadlineExceeded"

\* C22: once the context has expired, no stage receives a Region from a hand-off channel.
C22_NoDeliveryAfterDeadline ==
  [][Expired => \A t \in Tasks : ~(pc[t] = "recv" /\ pc'[t] = "check")]_vars

\* ------------------------------------------------------------ what nil means
\* C23: when Pipe has returned nil, the sink has processed every Region the source
\* handed off.
C23_NilMeansProcessed ==
  (cfg.shape = "chain" /\ pipePc = "returned" /\ result = Nil) =>
    Len(observed) >= HandedOff

\* ------------------------------------------------------------ sends on done
\* The stages in `errs <- err` or `errs <- nil`, their value not yet placed.
Placing == {t \in Tasks : pc[t] \in {"err", "nil"}}

\* C24: no run comes to rest with a stage still in its send on done.
C24_TerminalSendsComplete == Quiescent => Placing = {}

\* ------------------------------------------------------------ what the Pool gives back
\* The write goroutines that have not returned.
Running == {t \in Workers : pc[t] \notin {"off", "done"}}

\* C25: whenever no write goroutine of Pool is running and pool.Read is not about to
\* start one, all m targets are idle in p.writers and the wait group is at zero.
C25_PoolReleases ==
  (UsesPool /\ Running = {} /\ pc[SINK] # "acquire") =>
    (Len(writers) = cfg.m /\ poolWait = 0)

\* ------------------------------------------------------------ Pipe's cancel
\* Pipe takes a value from done in this step; Pipe derives its context in this step.
TakesValue == pipePc = "select" /\ pipePc' = "returned" /\ done # <<>> /\ done' = Tail(done)
Derives == pipePc = "idle" /\ pipePc' # "idle"

C26_State ==
  /\ pipePc = "returned" => Cancelled
  /\ Cancelled => (callerErr # NoErr \/ (pipePc = "returned" /\ result \in Placed))
  /\ (Cancelled /\ callerErr = NoErr) => ctxErr = "Canceled"

C26_Step ==
  /\ TakesValue => ctxErr' # NoErr
  /\ ctxErr' # ctxErr =>
       \/ TakesValue
       \/ callerErr = NoErr /\ callerErr' # NoErr /\ ctxErr' = callerErr'
       \/ Derives /\ ctxErr' = callerErr

\* C26: whenever Pipe has returned, with a stage's value or with the context's error, the
\* context it derived for the stages is cancelled; the step in which Pipe takes a value
\* from done cancels it; and it becomes cancelled in no other way than by that step, by
\* the caller's context being cancelled or expiring, or by being derived from a caller's
\* context that already was.
C26_CancelOnFirstResult == [](C26_State) /\ [][C26_Step]_vars

\* Pipe has returned the sink's error with a caller's context that is not cancelled: the
\* source, still in its send, runs under a cancelled context.
C26_Witness ==
  /\ cfg.shape = "chain" /\ cfg.cancel = "never"
  /\ pipePc = "returned" /\ result = "sinkErr"
  /\ callerErr = NoErr /\ ctxErr = "Canceled"
  /\ pc[Src(1)] = "send"

\* ------------------------------------------------------------ Get and Put calls
\* C27: when a run in which nothing fails and the caller never cancels has ended with
\* Pipe returning nil, as many Put calls as Get calls have been made.
C27_NoBufferLeaked ==
  (cfg.fail[1] = "none" /\ cfg.cancel = "never" /\ pipePc = "returned" /\ result = Nil) =>
    getCalls = putCalls

\* C28: one reader-backed producer directly into io.Sink, whatever the pool's capacity,
\* the buffer size and the file's length, whether a Read or a WriteAt fails or the caller
\* cancels: at every moment the Get calls made exceed the Put calls made by at most 2
\* (and by at least 0).
C28_AtMostTwoOut ==
  /\ getCalls - putCalls <= 2
  /\ getCalls - putCalls >= 0

\* The sink is writing the first Region while the source waits to send the second: two
\* buffers are out, of a pool of capacity 0.
C28_Witness ==
  /\ cfg.poolSize = 0 /\ cfg.fail[1] = "none" /\ callerErr = NoErr
  /\ getCalls = 2 /\ putCalls = 0
  /\ pc[SINK] = "write" /\ pc[Src(1)] = "send"

====
